---- MODULE Spec2Model ----
(***************************************************************************)
(* A model of sanic_agent's ParseModel (rest/httpx/request.py) and of its  *)
(* base class BaseModelPydantic (core/model/base_model.py): the validator  *)
(* registry, the per-field dispatch of registered validators, the two      *)
(* construction paths (from_data / model_validate and the constructor),    *)
(* the error translation, and the dictionary-style mutation of instances.  *)
(*                                                                         *)
(* Python values are records [t, s]: t is the Python type, s the           *)
(* characters of a str.  dicts are functions whose DOMAIN is the key set.  *)
(***************************************************************************)
EXTENDS Integers, Sequences, FiniteSets, TLC

VARIABLES
    registry,   \* ParseModel._validators_registry: name -> <<function, kwargs>>
    regLog,     \* history: the register_validator calls made so far, in order
    declared,   \* per ParseModel subclass: not declared yet, or when it was declared
    op,         \* the call in progress and everything it did (NoOp when idle)
    inst,       \* the instance the caller holds (NoInst when none)
    prev        \* an earlier construction the caller remembers (NoOp when none)

vars == <<registry, regLog, declared, op, inst, prev>>

----------------------------------------------------------------------------
(* Bounds *)

\* register_validator calls in one run
MaxRegs == 2

----------------------------------------------------------------------------
(* Python values *)

\* the empty dict
EmptyMap == [k \in {} |-> 0]

\* PydanticUndefined, the "not yet supplied" sentinel
Undefined == [t |-> "undefined", s |-> <<>>]

None == [t |-> "none", s |-> <<>>]

Str(chars) == [t |-> "str", s |-> chars]

\* the input mapping itself, as the "input" of a missing-field failure
DictValue == [t |-> "dict", s |-> <<>>]

Digits == {"0", "1", "2", "3", "4", "5", "6", "7", "8", "9"}

\* "13800138000"
Phone138 == <<"1", "3", "8", "0", "0", "1", "3", "8", "0", "0", "0">>

\* "31111111111"
Phone311 == <<"3", "1", "1", "1", "1", "1", "1", "1", "1", "1", "1">>

\* "+8613800138000"
PhonePlus86 == <<"+", "8", "6", "1", "3", "8", "0", "0", "1", "3", "8", "0", "0", "0">>

\* "Tom"
NameTom == <<"T", "o", "m">>

\* str.startswith
StartsWith(s, prefix) ==
    Len(prefix) <= Len(s) /\ SubSeq(s, 1, Len(prefix)) = prefix

\* str.isdigit: false on the empty string
IsDigit(s) == Len(s) > 0 /\ \A i \in 1..Len(s) : s[i] \in Digits

\* a keyword argument, or the default of the function's signature
ArgOr(args, key, dflt) == IF key \in DOMAIN args THEN args[key] ELSE dflt

----------------------------------------------------------------------------
(* Validator functions.  A validator returns a value or raises ValueError: *)
(* [ok, val, msg].                                                         *)

\* default of validate_phone's min_length
DefaultMinLength == 11

\* default of validate_phone's prefix
DefaultPrefix == <<"1">>

Returned(v) == [ok |-> TRUE, val |-> v, msg |-> ""]

Raised(v, m) == [ok |-> FALSE, val |-> v, msg |-> m]

\* validate_phone(value, min_length=11, prefix="1")
validate_phone(value, args) ==
    LET min_length == ArgOr(args, "min_length", DefaultMinLength)
        prefix == ArgOr(args, "prefix", DefaultPrefix)
    IN  IF value.s = <<>>
        THEN Returned(value)
        ELSE IF \/ ~StartsWith(value.s, prefix)
                \/ Len(value.s) # min_length
                \/ ~IsDigit(value.s)
             THEN Raised(value, "Invalid phone number format")
             ELSE Returned(value)

\* A validator that transforms: it takes the same keyword arguments, checks the
\* prefix and the minimal length, and returns the value without its prefix.
strip_prefix(value, args) ==
    LET min_length == ArgOr(args, "min_length", DefaultMinLength)
        prefix == ArgOr(args, "prefix", DefaultPrefix)
    IN  IF ~StartsWith(value.s, prefix) \/ Len(value.s) < min_length
        THEN Raised(value, "Prefix expected")
        ELSE Returned(Str(SubSeq(value.s, Len(prefix) + 1, Len(value.s))))

ValidatorFns == {"validate_phone", "strip_prefix"}

\* validator(value, **combined_args)
CallValidator(fn, value, args) ==
    IF fn = "validate_phone" THEN validate_phone(value, args)
    ELSE strip_prefix(value, args)

----------------------------------------------------------------------------
(* Schemas: the ParseModel subclasses.  model_fields is the ordered list   *)
(* of the FieldInfo of a class; "default" is PydanticUndefined on a        *)
(* required field; "extra" is json_schema_extra (EmptyMap when None).      *)

RequiredPhoneModel ==
    << [name |-> "Phone", type |-> "str", default |-> Undefined,
        extra |-> [validator |-> "validate_phone"]],
       [name |-> "Name", type |-> "str", default |-> Undefined,
        extra |-> EmptyMap] >>

OptionalPhoneModel ==
    << [name |-> "Phone", type |-> "optional_str", default |-> None,
        extra |-> [validator |-> "validate_phone"]] >>

CustomPhoneModel ==
    << [name |-> "Phone", type |-> "str", default |-> Undefined,
        extra |-> [validator |-> "validate_phone",
                   validator_args |-> [prefix |-> <<"+">>, min_length |-> 13]]] >>

\* A subclass that uses what the demo classes leave out: custom-message
\* tables, an override of one argument only, a default that is not None, and
\* a second validator name.
ContactModel ==
    << [name |-> "Phone", type |-> "str", default |-> Undefined,
        extra |-> [validator |-> "validate_phone",
                   validator_args |-> [prefix |-> <<"+">>],
                   error_messages |-> [value_error |-> "bad format",
                                       missing |-> "phone required"]]],
       [name |-> "Backup", type |-> "str", default |-> Str(Phone138),
        extra |-> [validator |-> "normalize_phone",
                   error_messages |-> [string_type |-> "bad type"]]] >>

SchemaNames ==
    {"RequiredPhoneModel", "OptionalPhoneModel", "CustomPhoneModel", "ContactModel"}

\* cls.model_fields
model_fields(cls) ==
    CASE cls = "RequiredPhoneModel" -> RequiredPhoneModel
      [] cls = "OptionalPhoneModel" -> OptionalPhoneModel
      [] cls = "CustomPhoneModel" -> CustomPhoneModel
      [] OTHER -> ContactModel

FieldNames(cls) == {model_fields(cls)[i].name : i \in DOMAIN model_fields(cls)}

\* cls.model_fields[field_name]
FieldInfo(cls, field_name) ==
    LET mf == model_fields(cls)
    IN  mf[CHOOSE i \in DOMAIN mf : mf[i].name = field_name]

\* Optional[...] in the annotation
IsOptional(cls, field_name) == FieldInfo(cls, field_name).type = "optional_str"

\* the field has a declared default
HasDefault(cls, field_name) == FieldInfo(cls, field_name).default # Undefined

----------------------------------------------------------------------------
(* The validator registry *)

ValidatorNames == {"validate_phone", "normalize_phone"}

\* The register_validator calls a run may make: <<name, validator, kwargs>>.
RegCalls ==
    { <<"validate_phone", "validate_phone", EmptyMap>>,
      <<"validate_phone", "strip_prefix", [min_length |-> 14, prefix |-> <<"8">>]>>,
      <<"normalize_phone", "strip_prefix", EmptyMap>> }

\* first-write-wins registration (dict.setdefault)
RegistryKeepFirst(reg, name, validator, kwargs) ==
    IF name \in DOMAIN reg THEN reg
    ELSE [n \in DOMAIN reg \cup {name} |->
            IF n = name THEN <<validator, kwargs>> ELSE reg[n]]

\* cls._validators_registry[name] = (validator, kwargs)
RegistrySet(reg, name, validator, kwargs) ==
    [n \in DOMAIN reg \cup {name} |->
        IF n = name THEN <<validator, kwargs>> ELSE reg[n]]

\* the merge the other way round: {**extra_args, **default_args}
MergeArgsDefaultsWin(default_args, extra_args) ==
    [k \in DOMAIN default_args \cup DOMAIN extra_args |->
        IF k \in DOMAIN default_args THEN default_args[k] ELSE extra_args[k]]

\* {**default_args, **extra_args}
MergeArgs(default_args, extra_args) ==
    [k \in DOMAIN default_args \cup DOMAIN extra_args |->
        IF k \in DOMAIN extra_args THEN extra_args[k] ELSE default_args[k]]

----------------------------------------------------------------------------
(* Validation dispatch: ParseModel.apply_custom_validators, the "before"   *)
(* validator of every field.  The result says what came back and which     *)
(* validator calls were made: [ok, val, msg, calls].                       *)

Passed(value) == [ok |-> TRUE, val |-> value, msg |-> "", calls |-> <<>>]

\* what the dispatch hands back from a validator call with result r
Invoked(validator, value, combined_args, r) ==
    [ok |-> r.ok, val |-> r.val, msg |-> r.msg,
     calls |-> <<[fn |-> validator, value |-> value, args |-> combined_args]>>]

\* the validator call: partial(validator, **combined_args)(value)
Invoke(validator, value, combined_args) ==
    Invoked(validator, value, combined_args,
            CallValidator(validator, value, combined_args))

\* a skip test for the sentinel alone: an explicit null goes to the validator
SkipsOnlyUndefined(cls, field_name, value) == value = Undefined

\* a skip test that lets an explicit null through only on an optional field
SkipsOptionalNull(cls, field_name, value) ==
    value = Undefined \/ (value = None /\ IsOptional(cls, field_name))

\* the skip test of the dispatch: isinstance(value, PydanticUndefinedType) or
\* value is None
SkipsValidation(cls, field_name, value) == value = Undefined \/ value = None

\* a dispatch that resolves a name that is not registered to the validator
\* registered as "normalize_phone", when there is one
apply_validators_fallback(cls, field_name, value, reg) ==
    LET extra == FieldInfo(cls, field_name).extra
    IN  IF DOMAIN extra # {} /\ "validator" \in DOMAIN extra
        THEN IF extra.validator \notin DOMAIN reg /\ "normalize_phone" \notin DOMAIN reg
             THEN Passed(value)
             ELSE IF SkipsValidation(cls, field_name, value)
             THEN Passed(value)
             ELSE Invoke(reg[IF extra.validator \in DOMAIN reg THEN extra.validator
                             ELSE "normalize_phone"][1],
                         value,
                         MergeArgs(reg[IF extra.validator \in DOMAIN reg
                                       THEN extra.validator
                                       ELSE "normalize_phone"][2],
                                   IF "validator_args" \in DOMAIN extra
                                   THEN extra.validator_args ELSE EmptyMap))
        ELSE Passed(value)

\* a dispatch that looks the name up without testing that it is registered:
\* a dangling reference raises
apply_validators_strict(cls, field_name, value, reg) ==
    LET extra == FieldInfo(cls, field_name).extra
    IN  IF DOMAIN extra # {} /\ "validator" \in DOMAIN extra
        THEN IF extra.validator \notin DOMAIN reg
             THEN [ok |-> FALSE, val |-> value, msg |-> "unknown validator",
                   calls |-> <<>>]
             ELSE IF SkipsValidation(cls, field_name, value)
             THEN Passed(value)
             ELSE Invoke(reg[extra.validator][1], value,
                         MergeArgs(reg[extra.validator][2],
                                   IF "validator_args" \in DOMAIN extra
                                   THEN extra.validator_args ELSE EmptyMap))
        ELSE Passed(value)

apply_custom_validators(cls, field_name, value, reg) ==
    LET field_info == FieldInfo(cls, field_name)
        extra == field_info.extra
    IN  IF DOMAIN extra # {} /\ "validator" \in DOMAIN extra
        THEN LET validator_name == extra.validator
                 extra_args == IF "validator_args" \in DOMAIN extra
                               THEN extra.validator_args
                               ELSE EmptyMap
             IN  IF validator_name \in DOMAIN reg
                 THEN LET validator == reg[validator_name][1]
                          default_args == reg[validator_name][2]
                          combined_args == MergeArgs(default_args, extra_args)
                      IN  IF SkipsValidation(cls, field_name, value)
                          THEN Passed(value)
                          ELSE Invoke(validator, value, combined_args)
                 ELSE Passed(value)
        ELSE Passed(value)

----------------------------------------------------------------------------
(* The validation of one payload against the fields of a class, as the     *)
(* base class's model_validate and __init__ run it: every field in         *)
(* declaration order, every failure kept.                                  *)

\* the declared type accepts the value (after the "before" validator)
TypeAccepts(type, value) ==
    \/ value.t = "str"
    \/ type = "optional_str" /\ value.t = "none"

\* the message of a failure, from its kind and its context
RenderMessage(type, ctx) ==
    CASE type = "missing" -> <<"Field required">>
      [] type = "string_type" -> <<"Input should be a valid string">>
      [] OTHER -> <<"Value error, ", ctx.error>>

MissingError(field_name) ==
    [type |-> "missing", loc |-> <<field_name>>, msg |-> RenderMessage("missing", EmptyMap),
     input |-> DictValue]

TypeError(field_name, value) ==
    [type |-> "string_type", loc |-> <<field_name>>,
     msg |-> RenderMessage("string_type", EmptyMap), input |-> value]

ValueError(field_name, value, message) ==
    [type |-> "value_error", loc |-> <<field_name>>,
     msg |-> RenderMessage("value_error", [error |-> message]),
     input |-> value, ctx |-> [error |-> message]]

\* A supplied value after the "before" validator returned or raised d: the
\* type check of what it returned, the failure if any, and the dispatch made.
CheckSupplied(cls, field_name, value, d) ==
    [val |-> IF d.ok /\ TypeAccepts(FieldInfo(cls, field_name).type, d.val)
             THEN d.val ELSE Undefined,
     disp |-> <<[field |-> field_name, value |-> value,
                 ok |-> d.ok, out |-> d.val, calls |-> d.calls]>>,
     errs |-> IF ~d.ok
              THEN <<ValueError(field_name, value, d.msg)>>
              ELSE IF ~TypeAccepts(FieldInfo(cls, field_name).type, d.val)
              THEN <<TypeError(field_name, d.val)>>
              ELSE <<>>]

\* One field: its value, its failures (none or one) and its dispatch (none or
\* one).  A supplied value goes through the "before" validator and then the
\* type check; an absent field takes its default unvalidated, or is missing.
ValidateField(cls, field_name, data, reg) ==
    IF field_name \in DOMAIN data
    THEN CheckSupplied(cls, field_name, data[field_name],
                       apply_custom_validators(cls, field_name, data[field_name], reg))
    ELSE IF HasDefault(cls, field_name)
         THEN [val |-> FieldInfo(cls, field_name).default, disp |-> <<>>,
               errs |-> <<>>]
         ELSE [val |-> Undefined, disp |-> <<>>,
               errs |-> <<MissingError(field_name)>>]

RECURSIVE CollectErrors(_, _, _, _)
\* the failures of the fields from the i-th on, in declaration order
CollectErrors(cls, data, reg, i) ==
    IF i > Len(model_fields(cls)) THEN <<>>
    ELSE ValidateField(cls, model_fields(cls)[i].name, data, reg).errs
         \o CollectErrors(cls, data, reg, i + 1)

RECURSIVE CollectDispatches(_, _, _, _)
CollectDispatches(cls, data, reg, i) ==
    IF i > Len(model_fields(cls)) THEN <<>>
    ELSE ValidateField(cls, model_fields(cls)[i].name, data, reg).disp
         \o CollectDispatches(cls, data, reg, i + 1)

\* the result of the underlying validation once the failures are collected
Validated(cls, data, reg, errors) ==
    [errors |-> errors,
     disp |-> CollectDispatches(cls, data, reg, 1),
     values |-> IF errors # <<>> THEN EmptyMap
                ELSE [f \in FieldNames(cls) |->
                        ValidateField(cls, f, data, reg).val]]

\* the underlying validation: the field values, or the failures
validate_python(cls, data, reg) ==
    Validated(cls, data, reg, CollectErrors(cls, data, reg, 1))

----------------------------------------------------------------------------
(* The Error Translator: ParseModel.customize_errors, and the rebuilding   *)
(* of the ValidationError from its result in ParseModel.model_validate.    *)

\* error.get("ctx", {})
CtxOf(error) == IF "ctx" \in DOMAIN error THEN error.ctx ELSE EmptyMap

\* the custom text of the field for this failure kind; "" when there is none
\* (the code's test of custom_message is its truth value, and "" is false)
CustomMessage(cls, error) ==
    LET field_name == IF error.loc # <<>> THEN error.loc[1] ELSE "unknown"
    IN  IF field_name \notin FieldNames(cls) THEN ""
        ELSE LET extra == FieldInfo(cls, field_name).extra
             IN  IF DOMAIN extra = {} THEN ""
                 ELSE LET error_messages ==
                              IF "error_messages" \in DOMAIN extra
                              THEN extra.error_messages
                              ELSE EmptyMap
                      IN  IF error.type \in DOMAIN error_messages
                          THEN error_messages[error.type]
                          ELSE ""

\* one pass of the loop of customize_errors
CustomizeOne(cls, error) ==
    LET custom_message == CustomMessage(cls, error)
    IN  IF custom_message # ""
        THEN [loc |-> error.loc, msg |-> <<custom_message>>,
              type |-> error.type, ctx |-> CtxOf(error)]
        ELSE error

customize_errors(cls, errors) ==
    [i \in 1..Len(errors) |-> CustomizeOne(cls, errors[i])]

\* The outcome of a construction: an instance, a ValidationError carrying the
\* failures, or another exception.
Instance(values) == [kind |-> "instance", values |-> values, errors |-> <<>>]

ValidationError(errors) ==
    [kind |-> "ValidationError", values |-> EmptyMap, errors |-> errors]

KeyError == [kind |-> "KeyError", values |-> EmptyMap, errors |-> <<>>]

\* ValidationError.from_exception_data(title, line_errors): every line error
\* must carry "type" and "input" (a missing key is a KeyError); "msg" is not
\* read, the message is rendered from the kind and the context.
from_exception_data(line_errors) ==
    IF \E i \in 1..Len(line_errors) : "input" \notin DOMAIN line_errors[i]
    THEN KeyError
    ELSE ValidationError(
            [i \in 1..Len(line_errors) |->
                [line_errors[i] EXCEPT
                    !.msg = RenderMessage(line_errors[i].type, CtxOf(line_errors[i]))]])

----------------------------------------------------------------------------
(* The two construction paths *)

NoOp == [kind |-> "none"]

\* the except branch of model_validate: customize_errors, then the new
\* ValidationError built from its result
Reraise(custom_errors) == from_exception_data(custom_errors)

\* model_validate once the underlying validation has given v
ModelValidated(cls, obj, reg, v) ==
    [kind |-> "from_data", cls |-> cls, data |-> obj, reg |-> reg,
     raw |-> v.errors, custom |-> customize_errors(cls, v.errors),
     disp |-> v.disp,
     out |-> IF v.errors = <<>> THEN Instance(v.values)
             ELSE Reraise(customize_errors(cls, v.errors))]

\* ParseModel.model_validate(obj), reached from BaseModelPydantic.from_data
model_validate(cls, obj, reg) ==
    ModelValidated(cls, obj, reg, validate_python(cls, obj, reg))

\* the keyword arguments after the loop of ParseModel.__init__: a field that
\* was not passed gets field_info.default unless that is None
InjectDefaults(cls, kwargs) ==
    [f \in DOMAIN kwargs \cup
           {g \in FieldNames(cls) : FieldInfo(cls, g).default # None} |->
        IF f \in DOMAIN kwargs THEN kwargs[f] ELSE FieldInfo(cls, f).default]

\* the constructor once the underlying validation has given v: its failures
\* are raised as they are
Initialized(cls, kwargs, reg, v) ==
    [kind |-> "init", cls |-> cls, data |-> kwargs, reg |-> reg,
     raw |-> v.errors, custom |-> <<>>, disp |-> v.disp,
     out |-> IF v.errors = <<>> THEN Instance(v.values)
             ELSE ValidationError(v.errors)]

\* ParseModel.__init__(**kwargs)
init(cls, kwargs, reg) ==
    Initialized(cls, kwargs, reg,
                validate_python(cls, InjectDefaults(cls, kwargs), reg))

----------------------------------------------------------------------------
(* Inputs *)

\* the values a caller supplies for a field
Candidates(field_name) ==
    CASE field_name = "Phone" ->
            {None, Str(<<>>), Str(Phone138), Str(Phone311), Str(PhonePlus86)}
      [] field_name = "Name" -> {None, Str(NameTom)}
      [] OTHER -> {None, Str(Phone138)}

AllCandidates == Candidates("Phone") \cup Candidates("Name") \cup Candidates("Backup")

\* the raw input mappings for a class: any subset of its fields supplied
InputsOf ==
    [cls \in SchemaNames |->
        { d \in UNION { [D -> AllCandidates] : D \in SUBSET FieldNames(cls) } :
            \A f \in DOMAIN d : d[f] \in Candidates(f) }]

Inputs(cls) == InputsOf[cls]

NoInst == [cls |-> "none", values |-> EmptyMap, pristine |-> FALSE]

\* the values a caller assigns after construction
MutationValues == {None, Str(Phone311)}

\* the names a caller may use on an instance: its fields and a foreign one
NamesFor(cls) == FieldNames(cls) \cup {"Unknown"}

\* the mappings passed to update: one or two names
UpdatesOf ==
    [cls \in SchemaNames |->
        UNION { [D -> MutationValues] :
                  D \in {E \in SUBSET NamesFor(cls) : Cardinality(E) \in {1, 2}} }]

----------------------------------------------------------------------------
(* Actions.  The program is single-threaded: a call is made when the       *)
(* previous one has returned (op = NoOp), and op holds the call and what   *)
(* it did until the caller has taken the outcome.                          *)

Init ==
    /\ registry = EmptyMap
    /\ regLog = <<>>
    /\ declared = [cls \in SchemaNames |-> "no"]
    /\ op = NoOp
    /\ inst = NoInst
    /\ prev = NoOp

\* ParseModel.register_validator(name, validator, **kwargs)
Register(call) ==
    /\ op = NoOp
    /\ Len(regLog) < MaxRegs
    /\ registry' = RegistrySet(registry, call[1], call[2], call[3])
    /\ regLog' = Append(regLog, call)
    /\ UNCHANGED <<declared, op, inst, prev>>

\* class cls(ParseModel): ...  The registry is not read; what is kept is
\* whether any validator had been registered by then.
Declare(cls) ==
    /\ op = NoOp
    /\ declared[cls] = "no"
    /\ declared' = [declared EXCEPT
                        ![cls] = IF regLog = <<>> THEN "before" ELSE "after"]
    /\ UNCHANGED <<registry, regLog, op, inst, prev>>

\* cls.from_data(data)
FromData(cls, data) ==
    /\ op = NoOp
    /\ declared[cls] # "no"
    /\ op' = model_validate(cls, data, registry)
    /\ UNCHANGED <<registry, regLog, declared, inst, prev>>

\* cls(**data)
Construct(cls, data) ==
    /\ op = NoOp
    /\ declared[cls] # "no"
    /\ op' = init(cls, data, registry)
    /\ UNCHANGED <<registry, regLog, declared, inst, prev>>

\* the caller has taken the outcome of the call
Return ==
    /\ op # NoOp
    /\ op' = NoOp
    /\ UNCHANGED <<registry, regLog, declared, inst, prev>>

Next ==
    \/ \E call \in RegCalls : Register(call)
    \/ \E cls \in SchemaNames : Declare(cls)
    \/ \E cls \in SchemaNames : \E data \in Inputs(cls) : FromData(cls, data)
    \/ \E cls \in SchemaNames : \E data \in Inputs(cls) : Construct(cls, data)
    \/ Return

Spec == Init /\ [][Next]_vars

----------------------------------------------------------------------------
(* Instances: the round trip through to_dict and the dictionary-style      *)
(* mutation of BaseModelPydantic.                                          *)

\* self.model_dump(): every field of the class with its value
to_dict(cls, values) == [f \in FieldNames(cls) |-> values[f]]

\* an assignment that runs the field's dispatch first (validate_assignment)
SetAttrValidated(cls, values, name, value, reg) ==
    LET d == apply_custom_validators(cls, name, value, reg)
    IN  [values |-> IF d.ok THEN [values EXCEPT ![name] = d.val] ELSE values,
         calls |-> d.calls]

\* setattr(self, name, value) on a field of the class: the value is stored as
\* given, no validator runs
SetAttr(cls, values, name, value, reg) ==
    [values |-> [values EXCEPT ![name] = value], calls |-> <<>>]

\* one item of update: stored when the key is a field of the class
UpdateItem(cls, acc, key, value, reg) ==
    IF key \in FieldNames(cls)
    THEN [values |-> SetAttr(cls, acc.values, key, value, reg).values,
          calls |-> acc.calls \o SetAttr(cls, acc.values, key, value, reg).calls]
    ELSE acc

RECURSIVE UpdateLoop(_, _, _, _, _)
\* the loop of update over the items not yet visited
UpdateLoop(cls, acc, data, keys, reg) ==
    IF keys = {} THEN acc
    ELSE UpdateLoop(cls,
                    UpdateItem(cls, acc, CHOOSE k \in keys : TRUE,
                               data[CHOOSE k \in keys : TRUE], reg),
                    data, keys \ {CHOOSE k \in keys : TRUE}, reg)

RECURSIVE RegistryAfter(_)
\* the registry after the register_validator calls of a log
RegistryAfter(log) ==
    IF log = <<>> THEN EmptyMap
    ELSE LET call == log[Len(log)]
         IN  RegistrySet(RegistryAfter(SubSeq(log, 1, Len(log) - 1)),
                         call[1], call[2], call[3])

Logs == UNION { [1..n -> RegCalls] : n \in 0..MaxRegs }

\* the classes are declared and the validators registered; no instance yet
InitInst ==
    /\ regLog \in Logs
    /\ registry = RegistryAfter(regLog)
    /\ declared = [cls \in SchemaNames |-> IF regLog = <<>> THEN "before" ELSE "after"]
    /\ op = NoOp
    /\ inst = NoInst
    /\ prev = NoOp

\* inst = cls.from_data(data)
Build(cls, data) ==
    /\ op = NoOp
    /\ op' = model_validate(cls, data, registry)
    /\ inst' = IF op'.out.kind = "instance"
               THEN [cls |-> cls, values |-> op'.out.values, pristine |-> TRUE]
               ELSE inst
    /\ UNCHANGED <<registry, regLog, declared, prev>>

\* the record of a mutation call and the instance after it
Mutated(kind, data, raises, r) ==
    [op |-> [kind |-> kind, data |-> data, before |-> inst, raised |-> raises,
             calls |-> r.calls],
     inst |-> IF raises THEN inst
              ELSE [inst EXCEPT !.values = r.values, !.pristine = FALSE]]

\* BaseModelPydantic.__setitem__(name, value)
setitem(name, value) ==
    IF name \notin FieldNames(inst.cls)
    THEN Mutated("setitem", [n \in {name} |-> value], TRUE,
                 [values |-> inst.values, calls |-> <<>>])
    ELSE Mutated("setitem", [n \in {name} |-> value], FALSE,
                 SetAttr(inst.cls, inst.values, name, value, registry))

\* BaseModelPydantic.update(data)
update(data) ==
    Mutated("update", data, FALSE,
            UpdateLoop(inst.cls, [values |-> inst.values, calls |-> <<>>],
                       data, DOMAIN data, registry))

\* inst[name] = value
SetItem(name, value) ==
    /\ op = NoOp
    /\ inst # NoInst
    /\ op' = setitem(name, value).op
    /\ inst' = setitem(name, value).inst
    /\ UNCHANGED <<registry, regLog, declared, prev>>

\* inst.update(data)
Update(data) ==
    /\ op = NoOp
    /\ inst # NoInst
    /\ op' = update(data).op
    /\ inst' = update(data).inst
    /\ UNCHANGED <<registry, regLog, declared, prev>>

\* type(inst).from_data(inst.to_dict())
RoundTrip ==
    /\ op = NoOp
    /\ inst # NoInst
    /\ op' = [model_validate(inst.cls, to_dict(inst.cls, inst.values), registry)
                EXCEPT !.kind = "roundtrip"]
    /\ UNCHANGED <<registry, regLog, declared, inst, prev>>

NextInst ==
    \/ \E cls \in SchemaNames : \E data \in Inputs(cls) : Build(cls, data)
    \/ /\ inst # NoInst
       /\ \E name \in NamesFor(inst.cls) : \E value \in MutationValues :
              SetItem(name, value)
    \/ /\ inst # NoInst
       /\ \E data \in UpdatesOf[inst.cls] : Update(data)
    \/ RoundTrip
    \/ Return

SpecInst == InitInst /\ [][NextInst]_vars

----------------------------------------------------------------------------
(* The same construction at two points of a run: the caller remembers a    *)
(* construction, validators are registered, the construction is repeated.  *)

\* the classes are declared; nothing is registered yet
InitDet ==
    /\ registry = EmptyMap
    /\ regLog = <<>>
    /\ declared = [cls \in SchemaNames |-> "before"]
    /\ op = NoOp
    /\ inst = NoInst
    /\ prev = NoOp

\* the caller keeps the construction just made, to repeat it later
Remember ==
    /\ op # NoOp
    /\ prev = NoOp
    /\ prev' = op
    /\ op' = NoOp
    /\ UNCHANGED <<registry, regLog, declared, inst>>

\* the remembered construction again: same class, same input, same path
Repeat ==
    /\ op = NoOp
    /\ prev # NoOp
    /\ op' = IF prev.kind = "from_data"
             THEN model_validate(prev.cls, prev.data, registry)
             ELSE init(prev.cls, prev.data, registry)
    /\ UNCHANGED <<registry, regLog, declared, inst, prev>>

NextDet ==
    \/ \E call \in RegCalls : Register(call)
    \/ /\ prev = NoOp
       /\ \E cls \in SchemaNames : \E data \in Inputs(cls) : FromData(cls, data)
    \/ /\ prev = NoOp
       /\ \E cls \in SchemaNames : \E data \in Inputs(cls) : Construct(cls, data)
    \/ Remember
    \/ Repeat
    \/ Return

SpecDet == InitDet /\ [][NextDet]_vars

----------------------------------------------------------------------------
(* One input through both construction paths, under one registry: the      *)
(* caller builds with from_data(data) and with the constructor.            *)

\* from_data(data) in op, the constructor call on the same data in prev
BothPaths(cls, data) ==
    /\ op = NoOp
    /\ prev = NoOp
    /\ op' = model_validate(cls, data, registry)
    /\ prev' = init(cls, data, registry)
    /\ UNCHANGED <<registry, regLog, declared, inst>>

\* both calls are over
ReturnBoth ==
    /\ op # NoOp
    /\ prev # NoOp
    /\ op' = NoOp
    /\ prev' = NoOp
    /\ UNCHANGED <<registry, regLog, declared, inst>>

NextPaths ==
    \/ \E cls \in SchemaNames : \E data \in Inputs(cls) : BothPaths(cls, data)
    \/ ReturnBoth

SpecPaths == InitInst /\ [][NextPaths]_vars

----------------------------------------------------------------------------
(* What the properties read off a call *)

IsFromData == op.kind = "from_data"

IsBuild == op.kind \in {"from_data", "init"}

\* the field carries an attached validator name
HasValidatorRef(cls, field_name) ==
    "validator" \in DOMAIN FieldInfo(cls, field_name).extra

ValidatorRef(cls, field_name) == FieldInfo(cls, field_name).extra.validator

OverrideArgs(cls, field_name) ==
    IF "validator_args" \in DOMAIN FieldInfo(cls, field_name).extra
    THEN FieldInfo(cls, field_name).extra.validator_args
    ELSE EmptyMap

\* the fields of the payload that fail: missing, of the wrong type, or
\* rejected by the attached validator
Offending(cls, data, reg) ==
    {f \in FieldNames(cls) : ValidateField(cls, f, data, reg).errs # <<>>}

\* the required fields the input lacks
MissingRequired(cls, data) ==
    {f \in FieldNames(cls) : ~HasDefault(cls, f) /\ f \notin DOMAIN data}

\* the failures of the raised batch that name the field
ErrorsFor(errors, field_name) ==
    {i \in 1..Len(errors) : errors[i].loc # <<>> /\ errors[i].loc[1] = field_name}

----------------------------------------------------------------------------
(* C1: one construction attempt through from_data never fails fast: when   *)
(* two or more distinct fields fail, what is raised is one non-empty batch *)
(* of Error Records with a record for every offending field.               *)
C1_Aggregation ==
    (IsFromData /\ Cardinality(Offending(op.cls, op.data, op.reg)) >= 2) =>
        /\ op.out.kind = "ValidationError"
        /\ op.out.errors # <<>>
        /\ \A f \in Offending(op.cls, op.data, op.reg) :
              ErrorsFor(op.out.errors, f) # {}

\* two fields fail and none of them has a custom message for its failure
C1_AggregationWitness ==
    /\ IsFromData
    /\ Cardinality(Offending(op.cls, op.data, op.reg)) >= 2
    /\ op.out.kind = "ValidationError"
    /\ Len(op.out.errors) = 2

(* C2: customize_errors returns a list of the same length and order whose  *)
(* records differ from the failures it was given in nothing but the        *)
(* message; the message is the custom text exactly when the field of the   *)
(* first path segment has a custom-message table with an entry for the     *)
(* kind; path, kind and context are the failure's own.                     *)
HasCustomEntry(cls, error) ==
    /\ error.loc # <<>>
    /\ error.loc[1] \in FieldNames(cls)
    /\ "error_messages" \in DOMAIN FieldInfo(cls, error.loc[1]).extra
    /\ error.type \in DOMAIN FieldInfo(cls, error.loc[1]).extra.error_messages

CustomEntry(cls, error) ==
    FieldInfo(cls, error.loc[1]).extra.error_messages[error.type]

C2_Translation ==
    IsFromData =>
        /\ Len(op.custom) = Len(op.raw)
        /\ \A i \in 1..Len(op.raw) :
              LET e == op.raw[i]
                  c == op.custom[i]
              IN  /\ DOMAIN c = DOMAIN e
                  /\ \A k \in DOMAIN e \ {"msg"} : c[k] = e[k]
                  /\ c.msg = IF HasCustomEntry(op.cls, e)
                             THEN <<CustomEntry(op.cls, e)>>
                             ELSE e.msg

\* a failure whose field has a custom text for its kind went through
C2_TranslationWitness ==
    /\ IsFromData
    /\ \E i \in 1..Len(op.raw) : HasCustomEntry(op.cls, op.raw[i])

(* C3: for a field whose validator name is registered, the dispatch skips  *)
(* the validator and returns the value as it is exactly when the value is  *)
(* the not-yet-supplied sentinel or an explicit null, whether or not the   *)
(* field is optional; every other value goes to the validator function,    *)
(* with the merged arguments.                                              *)
RegisteredDispatches ==
    {i \in 1..Len(op.disp) :
        /\ HasValidatorRef(op.cls, op.disp[i].field)
        /\ ValidatorRef(op.cls, op.disp[i].field) \in DOMAIN op.reg}

\* the one call the dispatch of d makes when it does not skip
ExpectedCall(d) ==
    LET entry == op.reg[ValidatorRef(op.cls, d.field)]
    IN  [fn |-> entry[1], value |-> d.value,
         args |-> [k \in DOMAIN entry[2] \cup DOMAIN OverrideArgs(op.cls, d.field) |->
                     IF k \in DOMAIN OverrideArgs(op.cls, d.field)
                     THEN OverrideArgs(op.cls, d.field)[k]
                     ELSE entry[2][k]]]

C3_SkipOnSentinelOrNull ==
    IsBuild =>
        \A i \in RegisteredDispatches :
            LET d == op.disp[i]
            IN  IF d.value = Undefined \/ d.value = None
                THEN d.calls = <<>> /\ d.ok /\ d.out = d.value
                ELSE d.calls = <<ExpectedCall(d)>>

\* an explicit null was supplied to a field that is not optional, and the
\* registered validator was skipped
C3_SkipWitness ==
    /\ IsBuild
    /\ \E i \in RegisteredDispatches :
          /\ op.disp[i].value = None
          /\ ~IsOptional(op.cls, op.disp[i].field)
          /\ op.disp[i].calls = <<>>
    /\ \E i \in RegisteredDispatches : op.disp[i].calls # <<>>

\* C3 as stated: an explicit null is skipped only on an optional field
C3_SkipOnlyOptionalNull ==
    IsBuild =>
        \A i \in RegisteredDispatches :
            LET d == op.disp[i]
            IN  IF \/ d.value = Undefined
                   \/ d.value = None /\ IsOptional(op.cls, d.field)
                THEN d.calls = <<>> /\ d.ok /\ d.out = d.value
                ELSE d.calls = <<ExpectedCall(d)>>

(* C4: a schema with a required field F (no default), built from an input  *)
(* that lacks F, through from_data or through the constructor, gives no    *)
(* instance but a non-empty error list with an entry of kind "missing"     *)
(* whose path includes F.                                                  *)
C4_RequiredRejection ==
    IsBuild =>
        \A f \in MissingRequired(op.cls, op.data) :
            /\ op.out.kind = "ValidationError"
            /\ op.out.errors # <<>>
            /\ \E i \in ErrorsFor(op.out.errors, f) : op.out.errors[i].type = "missing"

\* from_data on a class without custom messages reports the missing field
C4_RequiredRejectionWitness ==
    /\ IsFromData
    /\ MissingRequired(op.cls, op.data) # {}
    /\ op.out.kind = "ValidationError"
    /\ \A f \in MissingRequired(op.cls, op.data) :
          \E i \in ErrorsFor(op.out.errors, f) : op.out.errors[i].type = "missing"

(* C5: validator resolution is late-bound and last-write-wins: a dispatch  *)
(* of a field attached to name N uses the function and the default         *)
(* arguments of the most recent register_validator(N, ...) call before the *)
(* construction, whether the class was declared before or after it, and    *)
(* never an earlier pair.                                                  *)
RegistrationsOf(name) == {j \in 1..Len(regLog) : regLog[j][1] = name}

\* the most recent register_validator call under the name
LastRegistration(name) ==
    regLog[CHOOSE j \in RegistrationsOf(name) :
                \A k \in RegistrationsOf(name) : k <= j]

C5_LateBoundLastWriteWins ==
    IsBuild =>
        \A i \in 1..Len(op.disp) :
            LET d == op.disp[i]
                name == ValidatorRef(op.cls, d.field)
            IN  HasValidatorRef(op.cls, d.field) =>
                    IF RegistrationsOf(name) = {} \/ d.value = Undefined \/ d.value = None
                    THEN d.calls = <<>>
                    ELSE /\ Len(d.calls) = 1
                         /\ d.calls[1].fn = LastRegistration(name)[2]
                         /\ \A k \in DOMAIN LastRegistration(name)[3] \ DOMAIN OverrideArgs(op.cls, d.field) :
                               d.calls[1].args[k] = LastRegistration(name)[3][k]

\* a class declared before any registration is built after its validator
\* name was registered twice, with different functions, and the call made is
\* to the second
C5_ReRegistrationWitness ==
    /\ IsBuild
    /\ declared[op.cls] = "before"
    /\ \E i \in 1..Len(op.disp) :
          /\ HasValidatorRef(op.cls, op.disp[i].field)
          /\ op.disp[i].calls # <<>>
          /\ \E j, k \in RegistrationsOf(ValidatorRef(op.cls, op.disp[i].field)) :
                /\ j < k
                /\ regLog[j][2] # regLog[k][2]
                /\ op.disp[i].calls[1].fn = regLog[k][2]

(* C6: the arguments passed to an invoked validator are the merge of the   *)
(* registered default arguments with the field's override arguments: the   *)
(* keys of both, the override's value on every key of the override, the    *)
(* default's value on every key of the defaults alone; and the registered  *)
(* default_args are left as they were.                                     *)
C6_MergedArguments ==
    IsBuild =>
        /\ registry = op.reg
        /\ \A i \in RegisteredDispatches :
              LET d == op.disp[i]
                  default_args == op.reg[ValidatorRef(op.cls, d.field)][2]
                  override_args == OverrideArgs(op.cls, d.field)
              IN  \A c \in 1..Len(d.calls) :
                      /\ DOMAIN d.calls[c].args = DOMAIN default_args \cup DOMAIN override_args
                      /\ \A k \in DOMAIN override_args :
                            d.calls[c].args[k] = override_args[k]
                      /\ \A k \in DOMAIN default_args \ DOMAIN override_args :
                            d.calls[c].args[k] = default_args[k]

\* defaults {min_length: 14, prefix: "8"} and the override {prefix: "+"} gave
\* the call {min_length: 14, prefix: "+"}
C6_MergeWitness ==
    /\ IsBuild
    /\ \E i \in RegisteredDispatches :
          /\ op.reg[ValidatorRef(op.cls, op.disp[i].field)][2] =
                [min_length |-> 14, prefix |-> <<"8">>]
          /\ OverrideArgs(op.cls, op.disp[i].field) = [prefix |-> <<"+">>]
          /\ op.disp[i].calls # <<>>
          /\ op.disp[i].calls[1].args = [min_length |-> 14, prefix |-> <<"+">>]

(* C7: a dangling validator reference is not an error: when the name       *)
(* attached to a field is not in the registry at dispatch time, the        *)
(* dispatch returns the raw value unmodified, calls no validator and adds  *)
(* no failure for the field, as if no validator were attached (the type    *)
(* check of the raw value alone decides).                                  *)
DanglingDispatches ==
    {i \in 1..Len(op.disp) :
        /\ HasValidatorRef(op.cls, op.disp[i].field)
        /\ ValidatorRef(op.cls, op.disp[i].field) \notin DOMAIN op.reg}

C7_DanglingReference ==
    IsBuild =>
        \A i \in DanglingDispatches :
            LET d == op.disp[i]
            IN  /\ d.calls = <<>>
                /\ d.ok
                /\ d.out = d.value
                /\ \A j \in ErrorsFor(op.raw, d.field) : op.raw[j].type # "value_error"
                /\ (ErrorsFor(op.raw, d.field) = {}) =
                        TypeAccepts(FieldInfo(op.cls, d.field).type, d.value)

\* a string that the validator would reject went through a dangling reference
C7_DanglingWitness ==
    /\ IsBuild
    /\ op.out.kind = "instance"
    /\ \E i \in DanglingDispatches :
          /\ op.disp[i].value = Str(Phone311)
          /\ op.out.values[op.disp[i].field] = Str(Phone311)

(* C8: post-construction mutation checks membership but not validity.     *)
(* __setitem__ with a name that is no field of the schema raises and       *)
(* changes nothing; update does not reject: it skips the names that are no *)
(* fields and still stores the fields named in the same call; a field is   *)
(* stored exactly as given, without a call of its attached validator; the  *)
(* field names of the instance stay those of the schema.                   *)
IsMutation == op.kind \in {"setitem", "update"}

ForeignNames == DOMAIN op.data \ FieldNames(op.before.cls)

C8_MutationChecksMembership ==
    /\ inst # NoInst => DOMAIN inst.values = FieldNames(inst.cls)
    /\ IsMutation =>
          /\ op.calls = <<>>
          /\ op.raised = (op.kind = "setitem" /\ ForeignNames # {})
          /\ inst.values =
                [f \in FieldNames(op.before.cls) |->
                    IF f \in DOMAIN op.data THEN op.data[f]
                    ELSE op.before.values[f]]

\* update with a foreign name and a field whose registered validator rejects
\* the value: the field holds the value
C8_MutationWitness ==
    /\ op.kind = "update"
    /\ ForeignNames # {}
    /\ \E f \in DOMAIN op.data \cap FieldNames(inst.cls) :
          /\ HasValidatorRef(inst.cls, f)
          /\ ValidatorRef(inst.cls, f) \in DOMAIN registry
          /\ ~apply_custom_validators(inst.cls, f, op.data[f], registry).ok
          /\ inst.values[f] = op.data[f]
          /\ op.before.values[f] # op.data[f]

\* C8 as stated: a call naming a field that is not in the schema is rejected
\* and changes no field value
C8_ForeignNameRejected ==
    /\ inst # NoInst => DOMAIN inst.values = FieldNames(inst.cls)
    /\ IsMutation =>
          /\ op.calls = <<>>
          /\ ForeignNames # {} => op.raised /\ inst.values = op.before.values
          /\ ForeignNames = {} =>
                inst.values =
                    [f \in FieldNames(op.before.cls) |->
                        IF f \in DOMAIN op.data THEN op.data[f]
                        ELSE op.before.values[f]]

(* C9: round trip.  For an instance as from_data built it, to_dict and     *)
(* from_data again, under the same registry, succeed and give the same     *)
(* field values, provided every registered validator attached to a field   *)
(* returns the stored value of that field unchanged when called on it.     *)
IsRoundTrip == op.kind = "roundtrip"

\* the registered validator attached to f, called on the stored value with
\* the merged arguments, returns that value
StoredValueFixed(cls, f, value, reg) ==
    (/\ HasValidatorRef(cls, f)
     /\ ValidatorRef(cls, f) \in DOMAIN reg
     /\ value # None) =>
        CallValidator(reg[ValidatorRef(cls, f)][1], value,
                      [k \in DOMAIN reg[ValidatorRef(cls, f)][2] \cup DOMAIN OverrideArgs(cls, f) |->
                          IF k \in DOMAIN OverrideArgs(cls, f)
                          THEN OverrideArgs(cls, f)[k]
                          ELSE reg[ValidatorRef(cls, f)][2][k]])
            = Returned(value)

C9_RoundTripFixedValues ==
    (/\ IsRoundTrip
     /\ inst.pristine
     /\ \A f \in FieldNames(inst.cls) :
            StoredValueFixed(inst.cls, f, inst.values[f], registry)) =>
        /\ op.out.kind = "instance"
        /\ \A f \in FieldNames(inst.cls) : op.out.values[f] = inst.values[f]

\* the round trip of an instance called a registered validator, which
\* returned the stored value
C9_RoundTripWitness ==
    /\ IsRoundTrip
    /\ inst.pristine
    /\ op.out.kind = "instance"
    /\ \E i \in 1..Len(op.disp) : op.disp[i].calls # <<>>
    /\ \A f \in FieldNames(inst.cls) : op.out.values[f] = inst.values[f]

\* C9 as stated: every valid instance, whatever its validators
C9_RoundTrip ==
    (IsRoundTrip /\ inst.pristine) =>
        /\ op.out.kind = "instance"
        /\ \A f \in FieldNames(inst.cls) : op.out.values[f] = inst.values[f]

(* C10: two constructions of the same schema from the same raw input, at   *)
(* two points of a run with register_validator calls in between, have the  *)
(* same outcome, provided every validator name attached to a field of the  *)
(* schema resolves to the same registry entry, or to none, at both points. *)
SameConstruction ==
    /\ op # NoOp
    /\ prev # NoOp
    /\ op.kind = prev.kind
    /\ op.cls = prev.cls
    /\ op.data = prev.data

SameAttachedEntries ==
    \A f \in FieldNames(op.cls) :
        HasValidatorRef(op.cls, f) =>
            /\ (ValidatorRef(op.cls, f) \in DOMAIN op.reg)
                    = (ValidatorRef(op.cls, f) \in DOMAIN prev.reg)
            /\ ValidatorRef(op.cls, f) \in DOMAIN op.reg =>
                    op.reg[ValidatorRef(op.cls, f)] = prev.reg[ValidatorRef(op.cls, f)]

C10_SameOutcomeSameEntries ==
    (SameConstruction /\ SameAttachedEntries) => op.out = prev.out

\* a validator was registered between the two constructions, under a name
\* the schema does not use, and the schema's own validator was called
C10_DeterminismWitness ==
    /\ SameConstruction
    /\ SameAttachedEntries
    /\ op.reg # prev.reg
    /\ \E i \in 1..Len(op.disp) : op.disp[i].calls # <<>>
    /\ op.out = prev.out

\* C10 as stated: the same outcome at any two points
C10_Determinism ==
    SameConstruction => op.out = prev.out

(* C11: the two construction paths are equivalent.  For every schema,      *)
(* registry and raw input, from_data and the constructor both succeed      *)
(* with the same field values, or both fail with error lists of the same   *)
(* field paths, kinds and messages, and the attached validator is invoked  *)
(* on the same set of fields in both.                                      *)
IsBothPaths == op.kind = "from_data" /\ prev.kind = "init"

\* field path, kind and message of every Error Record of an outcome
ErrorSummary(out) ==
    [i \in 1..Len(out.errors) |->
        [loc |-> out.errors[i].loc, type |-> out.errors[i].type,
         msg |-> out.errors[i].msg]]

\* the fields on which a call invoked a validator function
InvokedFields(call) ==
    {call.disp[i].field : i \in {j \in 1..Len(call.disp) : call.disp[j].calls # <<>>}}

C11_PathsEquivalent ==
    IsBothPaths =>
        /\ op.out.kind = prev.out.kind
        /\ op.out.values = prev.out.values
        /\ ErrorSummary(op.out) = ErrorSummary(prev.out)
        /\ InvokedFields(op) = InvokedFields(prev)

\* both paths built an instance from an input that leaves no field absent,
\* after invoking the registered validator
C11_PathsWitness ==
    /\ IsBothPaths
    /\ op.out.kind = "instance"
    /\ prev.out = op.out
    /\ InvokedFields(op) # {}
    /\ InvokedFields(prev) = InvokedFields(op)

====
